---- MODULE Spec2Model ----
(***************************************************************************)
(* A model of sms_plusserver.py: the client of the Plusserver SMS platform *)
(* (SMSResponse, the SMSServiceError classes, SMSService, SMS and the      *)
(* module-level shortcut functions).                                       *)
(*                                                                         *)
(* Conventions of the model                                                *)
(*   - a Python str is a tuple of one-character strings;                   *)
(*   - an Optional value is None (the empty tuple) or Some(v) = <<v>>;     *)
(*   - durations and timeouts are integers counted in quarters of a        *)
(*     second, so the 0.5 s of CHECK_STATE_WAIT_BETWEEN_CALLS is 2.        *)
(***************************************************************************)
EXTENDS Integers, Sequences, FiniteSets, TLC

(***************************************************************************)
(* Bounds of the model.                                                    *)
(***************************************************************************)
\* Longest wall-clock duration of one state check, in quarter seconds.
MaxStepDur == 2
\* Largest timeout a caller or the configuration supplies (quarter seconds).
MaxTimeout == 4
\* The counters of one polling call (state checks, POSTs, sleeps) count up
\* to MaxCount; the value MaxCount stands for "MaxCount or more".
MaxCount == 4
\* The wall-clock time since wait_until_arrived began is tracked exactly
\* below MaxElapsed; the value MaxElapsed stands for "MaxElapsed or more".
MaxElapsed == 8
\* Response texts given to the parser alone have up to MaxLines lines.
MaxLines == 4
\* The remaining budget is tracked exactly below MaxRemaining; the value
\* MaxRemaining stands for "MaxRemaining or more" (the loop only compares
\* the budget with 0 and with 0.75 s, both below it).
MaxRemaining == 6

(***************************************************************************)
(* Optional values.                                                        *)
(***************************************************************************)
None == << >>

Some(v) == << v >>

Val(o) == o[1]

Min(a, b) == IF a <= b THEN a ELSE b

(***************************************************************************)
(* Python strings as tuples of characters, and the module's literals.      *)
(***************************************************************************)
NL == "\n"

EQ == "="

Whitespace == {" ", "\t", NL}

STATE_PROCESSED == <<"p", "r", "o", "c", "e", "s", "s", "e", "d">>

STATE_ARRIVED == <<"a", "r", "r", "i", "v", "e", "d">>

MESSAGE_OK == <<"R", "E", "Q", "U", "E", "S", "T", " ", "O", "K">>

MESSAGE_ERROR == <<"E", "R", "R", "O", "R">>

KEY_HANDLE == <<"h", "a", "n", "d", "l", "e">>

KEY_STATE == <<"s", "t", "a", "t", "e">>

KEY_ERROR == <<"e", "r", "r", "o", "r">>

\* str(None)
STR_NONE == <<"N", "o", "n", "e">>

\* Truth value of an Optional[str]: None and '' are false.
Truthy(o) == o # None /\ Val(o) # << >>

\* Index of the first occurrence of character c in s at or after i, 0 if none.
RECURSIVE Find(_, _, _)
Find(s, c, i) ==
    IF i > Len(s) THEN 0
    ELSE IF s[i] = c THEN i
    ELSE Find(s, c, i + 1)

\* str.splitlines(), for texts whose only line break is the newline.
RECURSIVE SplitLines(_)
SplitLines(text) ==
    IF text = << >> THEN << >>
    ELSE LET i == Find(text, NL, 1)
         IN  IF i = 0 THEN << text >>
             ELSE << SubSeq(text, 1, i - 1) >>
                  \o SplitLines(SubSeq(text, i + 1, Len(text)))

RECURSIVE LStrip(_)
LStrip(s) ==
    IF s # << >> /\ Head(s) \in Whitespace THEN LStrip(Tail(s)) ELSE s

RECURSIVE RStrip(_)
RStrip(s) ==
    IF s # << >> /\ s[Len(s)] \in Whitespace
    THEN RStrip(SubSeq(s, 1, Len(s) - 1))
    ELSE s

\* str.strip()
Strip(s) == LStrip(RStrip(s))

(***************************************************************************)
(* SMSResponse: message and the ordered _data dictionary, kept as a tuple  *)
(* of <<key, value>> pairs in insertion order.                             *)
(***************************************************************************)
\* Position of key in the ordered dictionary d, 0 if absent.
RECURSIVE DictIndex(_, _, _)
DictIndex(d, key, i) ==
    IF i > Len(d) THEN 0
    ELSE IF d[i][1] = key THEN i
    ELSE DictIndex(d, key, i + 1)

\* A variant of the dictionary that keeps the first value of a key; the
\* parsing property must fail under it.
DictSet_KeepingFirst(d, key, value) ==
    LET i == DictIndex(d, key, 1)
    IN  IF i = 0 THEN Append(d, << key, value >>)
        ELSE d

\* OrderedDict.__setitem__: an existing key keeps its position.
DictSet(d, key, value) ==
    LET i == DictIndex(d, key, 1)
    IN  IF i = 0 THEN Append(d, << key, value >>)
        ELSE [d EXCEPT ![i] = << key, value >>]

\* The loop of SMSResponse.__init__ over the lines after the first.
RECURSIVE ParseLines(_, _)
ParseLines(lines, d) ==
    IF lines = << >> THEN d
    ELSE LET line == Head(lines)
             i    == Find(line, EQ, 1)
         IN  IF i = 0 THEN ParseLines(Tail(lines), d)
             ELSE ParseLines(Tail(lines),
                             DictSet(d,
                                     Strip(SubSeq(line, 1, i - 1)),
                                     Strip(SubSeq(line, i + 1, Len(line)))))

SMSResponse(response_text) ==
    LET lines == SplitLines(response_text)
    IN  [message |-> IF lines # << >> THEN Head(lines) ELSE << >>,
         data    |-> ParseLines(IF lines # << >> THEN Tail(lines) ELSE << >>,
                                << >>)]

\* SMSResponse.get(key) with the default of None.
Get(resp, key) ==
    LET i == DictIndex(resp.data, key, 1)
    IN  IF i = 0 THEN None ELSE Some(resp.data[i][2])

ResponseHandleId(resp) == Get(resp, KEY_HANDLE)

ResponseState(resp) == Get(resp, KEY_STATE)

ResponseError(resp) == Get(resp, KEY_ERROR)

IsOk(resp) == resp.message = MESSAGE_OK

\* A variant of is_error that takes every status line other than
\* 'REQUEST OK' for an error; the property of _request's results must fail
\* under it.
IsError_NotOk(resp) == resp.message # MESSAGE_OK

IsError(resp) == resp.message = MESSAGE_ERROR

(***************************************************************************)
(* The faults of the HTTP library (requests.RequestException and its       *)
(* subclasses) and the outcomes of one POST.                               *)
(***************************************************************************)
FaultTypes == {"HTTPError", "ConnectionError", "ConnectTimeout", "ReadTimeout"}

\* str(error) of a fault of the given type.
FaultText(type) ==
    CASE type = "HTTPError"       -> <<"5", "0", "0">>
      [] type = "ConnectionError" -> << >>
      [] type = "ConnectTimeout"  -> <<"c", "t">>
      [] type = "ReadTimeout"     -> <<"r", "t">>

Fault(type) == [type |-> type, text |-> FaultText(type)]

\* isinstance(error, requests.HTTPError)
IsHTTPError(error) == error.type = "HTTPError"

\* isinstance(error, requests.Timeout)
IsTimeoutFault(error) == error.type \in {"ConnectTimeout", "ReadTimeout"}

\* Response bodies of the platform.
TEXT_PUT_OK ==
    MESSAGE_OK \o <<NL>> \o KEY_HANDLE \o <<" ", EQ, " ", "h">>
    \o <<NL>> \o KEY_STATE \o <<" ", EQ, " ", "n", "e", "w">>

TEXT_PROCESSED ==
    MESSAGE_OK \o <<NL>> \o KEY_STATE \o <<" ", EQ, " ">> \o STATE_PROCESSED

TEXT_ARRIVED ==
    MESSAGE_OK \o <<NL>> \o KEY_STATE \o <<" ", EQ, " ">> \o STATE_ARRIVED

TEXT_ERROR ==
    MESSAGE_ERROR \o <<NL>> \o KEY_ERROR \o <<" ", EQ, " ", "b", "a", "d">>

\* An ERROR response whose error attribute is the empty string.
TEXT_ERROR_EMPTY == MESSAGE_ERROR \o <<NL>> \o KEY_ERROR \o <<" ", EQ>>

\* An ERROR response without an error attribute.
TEXT_ERROR_BARE == MESSAGE_ERROR

\* A body whose status line is neither REQUEST OK nor ERROR.
TEXT_OTHER == <<"?">> \o <<NL>> \o KEY_STATE \o <<" ", EQ, " ">> \o STATE_PROCESSED

FaultOutcome(type) == [kind |-> "fault", error |-> Fault(type)]

TextOutcome(text) == [kind |-> "response", text |-> text]

\* The bodies the submit endpoint may answer with.
PutTexts == {TEXT_PUT_OK, TEXT_ERROR, TEXT_ERROR_BARE, << >>}

\* The bodies the state-check endpoint may answer with.
StateTexts ==
    {TEXT_PROCESSED, TEXT_ARRIVED, TEXT_ERROR, TEXT_ERROR_EMPTY, TEXT_OTHER}

\* The outcomes of a POST to the submit endpoint.
PutOutcomes ==
    {FaultOutcome(t) : t \in {"HTTPError", "ConnectTimeout"}}
    \cup {TextOutcome(t) : t \in PutTexts}

\* The outcomes of a POST to the state-check endpoint.
StateOutcomes ==
    {FaultOutcome(t) : t \in FaultTypes}
    \cup {TextOutcome(t) : t \in StateTexts}

\* SMSResponse(response.text) for each body of the model, parsed once.
ParsedResponse == [text \in PutTexts \cup StateTexts |-> SMSResponse(text)]

(***************************************************************************)
(* SMSServiceError and its subclasses.                                     *)
(***************************************************************************)
\* str(original_exception)
Str(original_exception) ==
    IF original_exception = None THEN STR_NONE
    ELSE Val(original_exception).text

\* SMSServiceError.__init__(message, original_exception) of class cls.
NewError(cls, message, original_exception) ==
    [class              |-> cls,
     message            |-> IF Truthy(message) THEN Val(message)
                            ELSE Str(original_exception),
     original_exception |-> original_exception]

\* SMSServiceError.is_timeout, as a truth value.
IsTimeout(exception) ==
    /\ exception.original_exception # None
    /\ IsTimeoutFault(Val(exception.original_exception))

MSG_NO_CREDENTIALS ==
    <<"S", "e", "r", "v", "i", "c", "e", " ", "c", "r", "e", "d", "e", "n",
      "t", "i", "a", "l", "s", " ", "n", "o", "t", " ", "d", "e", "f", "i",
      "n", "e", "d">>

MSG_NO_HANDLE ==
    <<"U", "n", "a", "b", "l", "e", " ", "t", "o", " ", "c", "h", "e", "c",
      "k", " ", "s", "t", "a", "t", "e", " ", "o", "f", " ", "u", "n", "s",
      "e", "n", "t", " ", "S", "M", "S">>

(***************************************************************************)
(* The result of a call: a returned value or a raised exception, with the  *)
(* error records it logged and the POSTs it issued, each POST with the     *)
(* outcome the transport gave it.                                          *)
(***************************************************************************)
Return(value, log, posts) ==
    [raised |-> FALSE, value |-> value, exc |-> None,
     log |-> log, posts |-> posts]

Raise(exception, log, posts) ==
    [raised |-> TRUE, value |-> None, exc |-> Some(exception),
     log |-> log, posts |-> posts]

\* A variant of the classification that takes every fault for a
\* communication fault; the classification property must fail under it.
ExceptionClass_AlwaysCommunication(error) == "CommunicationError"

\* The exception class chosen for a fault of requests.post/raise_for_status.
ExceptionClass(error) ==
    IF IsHTTPError(error) THEN "RequestError" ELSE "CommunicationError"

\* The exception _request builds for the outcome of its POST, None if the
\* outcome is a parsed response that is not an ERROR response.
RequestException(outcome, sms_response) ==
    IF outcome.kind = "fault"
    THEN Some(NewError(ExceptionClass(outcome.error), None,
                       Some(outcome.error)))
    ELSE IF IsError(Val(sms_response))
    THEN Some(NewError("RequestError", ResponseError(Val(sms_response)),
                       None))
    ELSE None

\* A variant of _request that never suppresses its errors; the
\* fail_silently property must fail under it.
Suppressed_Never(fail_silently) == FALSE

\* Whether an error of _request is returned as None rather than raised.
Suppressed(fail_silently) == fail_silently

\* A variant of _request that repeats a failed POST once; the one-POST
\* property must fail under it.
Request_Retrying(url, timeout, fail_silently, outcome) ==
    LET post         == [url |-> url, timeout |-> timeout,
                         fail_silently |-> fail_silently,
                         outcome |-> outcome]
        sms_response == IF outcome.kind = "fault" THEN None
                        ELSE Some(ParsedResponse[outcome.text])
        exception    == RequestException(outcome, sms_response)
    IN  IF exception # None
        THEN IF Suppressed(fail_silently)
             THEN Return(None, << Val(exception) >>, << post, post >>)
             ELSE Raise(Val(exception), << Val(exception) >>,
                        << post, post >>)
        ELSE Return(sms_response, << >>, << post >>)

\* SMSService._request: one POST to url with the given timeout.
Request(url, timeout, fail_silently, outcome) ==
    LET post         == [url |-> url, timeout |-> timeout,
                         fail_silently |-> fail_silently,
                         outcome |-> outcome]
        sms_response == IF outcome.kind = "fault" THEN None
                        ELSE Some(ParsedResponse[outcome.text])
        exception    == RequestException(outcome, sms_response)
    IN  IF exception # None
        THEN IF Suppressed(fail_silently)
             THEN Return(None, << Val(exception) >>, << post >>)
             ELSE Raise(Val(exception), << Val(exception) >>, << post >>)
        ELSE Return(sms_response, << >>, << post >>)

\* A variant of the credentials test that looks at the username alone; the
\* no-credentials property must fail under it.
CredentialsMissing_UsernameOnly(self) == ~ Truthy(self.username)

\* `not (self.username and self.password)`
CredentialsMissing(self) ==
    ~ (Truthy(self.username) /\ Truthy(self.password))

\* A variant of the handle test that takes an empty handle for a handle; the
\* no-handle property must fail under it.
HandleMissing_AbsentOnly(handle_id) == handle_id = None

\* `not handle_id`
HandleMissing(handle_id) == ~ Truthy(handle_id)

\* A variant of the timeout resolution that tests the truth value, as line
\* 401 does; the POST-timeout property must fail under it.
RequestTimeout_Truthy(self, timeout) ==
    IF timeout # None /\ Val(timeout) # 0 THEN timeout ELSE self.timeout

\* `if timeout is None: timeout = self.timeout`
RequestTimeout(self, timeout) ==
    IF timeout = None THEN self.timeout ELSE timeout

\* SMSService.put_sms
PutSms(self, timeout, fail_silently, outcome) ==
    IF CredentialsMissing(self)
    THEN Raise(NewError("ConfigurationError", Some(MSG_NO_CREDENTIALS), None),
               << >>, << >>)
    ELSE Request("put", RequestTimeout(self, timeout), fail_silently, outcome)

\* SMSService.check_sms_state
CheckSmsState(self, handle_id, timeout, fail_silently, outcome) ==
    IF CredentialsMissing(self)
    THEN Raise(NewError("ConfigurationError", Some(MSG_NO_CREDENTIALS), None),
               << >>, << >>)
    ELSE IF HandleMissing(handle_id)
    THEN Raise(NewError("ValidationError", Some(MSG_NO_HANDLE), None),
               << >>, << >>)
    ELSE Request("state", RequestTimeout(self, timeout), fail_silently,
                 outcome)

(***************************************************************************)
(* SMS: the two result slots and the derived properties.                   *)
(***************************************************************************)
\* SMS.handle_id
SMSHandleId(m) ==
    IF m.put_response # None THEN ResponseHandleId(Val(m.put_response))
    ELSE None

\* A variant of SMS.state that prefers put_response; the derived-property
\* invariant must fail under it.
SMSState_PutFirst(m) ==
    LET response == IF m.put_response # None THEN m.put_response
                    ELSE m.state_response
    IN  IF response # None THEN ResponseState(Val(response)) ELSE None

\* SMS.state
SMSState(m) ==
    LET response == IF m.state_response # None THEN m.state_response
                    ELSE m.put_response
    IN  IF response # None THEN ResponseState(Val(response)) ELSE None

\* `state_response.state if state_response else None`
StateOrNone(state_response) ==
    IF state_response # None THEN ResponseState(Val(state_response))
    ELSE None

\* A call result r with its value replaced by f(value) when it returned.
MapValue(r, value) == IF r.raised THEN r ELSE [r EXCEPT !.value = value]

\* A Python bool as a result value: distinct from None and from every str
\* (a str is a tuple of one-character strings).
Bool(b) == Some(<< IF b THEN "True" ELSE "False" >>)

\* A variant of send that looks at registered_delivery alone; the result
\* property must fail under it.
SendResult_IgnoringDebug(m, put_response) ==
    IF m.registered_delivery
    THEN IF put_response # None THEN ResponseHandleId(Val(put_response))
         ELSE None
    ELSE Bool(put_response # None /\ IsOk(Val(put_response)))

\* A variant of send that answers False for every failed submission,
\* registered delivery or not; the property of a silently failing send must
\* fail under it.
SendResult_FalseOnFailure(m, put_response) ==
    IF put_response = None THEN Bool(FALSE)
    ELSE IF m.registered_delivery /\ ~ m.debug
    THEN ResponseHandleId(Val(put_response))
    ELSE Bool(IsOk(Val(put_response)))

\* The value SMSService.send computes from put_response (lines 220-224).
SendResult(m, put_response) ==
    IF m.registered_delivery /\ ~ m.debug
    THEN IF put_response # None THEN ResponseHandleId(Val(put_response))
         ELSE None
    ELSE Bool(put_response # None /\ IsOk(Val(put_response)))

\* A variant of send without its `except` clause: a raising put_sms leaves
\* put_response as it was; the slot property must fail under it.
SendTail_KeepingOnRaise(m, r) ==
    IF r.raised
    THEN [r |-> r, sms |-> m]
    ELSE [r   |-> MapValue(r, SendResult(m, r.value)),
          sms |-> [m EXCEPT !.put_response = r.value]]

\* A variant of send that starts the message afresh and drops its
\* state_response; the frame property of send must fail under it.
SendTail_ClearingState(m, r) ==
    IF r.raised
    THEN [r |-> r, sms |-> [m EXCEPT !.put_response = None,
                                     !.state_response = None]]
    ELSE [r   |-> MapValue(r, SendResult(m, r.value)),
          sms |-> [m EXCEPT !.put_response = r.value,
                            !.state_response = None]]

\* The tail of SMSService.send, after put_sms returned or raised r: the
\* call result and the message afterwards.
SendTail(m, r) ==
    IF r.raised
    THEN [r |-> r, sms |-> [m EXCEPT !.put_response = None]]
    ELSE [r   |-> MapValue(r, SendResult(m, r.value)),
          sms |-> [m EXCEPT !.put_response = r.value]]

\* The tail of SMSService.check_state, after `method` returned or raised r.
CheckStateTail(m, r) ==
    IF r.raised
    THEN [r |-> r, sms |-> [m EXCEPT !.state_response = None]]
    ELSE [r   |-> MapValue(r, StateOrNone(r.value)),
          sms |-> [m EXCEPT !.state_response = r.value]]

(***************************************************************************)
(* SMSService.wait_until_arrived, one iteration of its loop at a time.     *)
(***************************************************************************)
\* CHECK_STATE_WAIT_BETWEEN_CALLS = 0.5 s, in quarter seconds.
CHECK_STATE_WAIT_BETWEEN_CALLS == 2

\* A variant of the initial budget that puts a number in the place of an
\* absent budget; the no-sleep property of the unbounded loop must fail
\* under it.
InitialRemaining_Defaulting(self, timeout) ==
    IF timeout # None /\ Val(timeout) # 0 THEN timeout
    ELSE IF self.timeout # None THEN self.timeout
    ELSE Some(MaxTimeout)

\* `timeout if timeout else self.timeout`: None and 0 are false.
InitialRemaining(self, timeout) ==
    IF timeout # None /\ Val(timeout) # 0 THEN timeout ELSE self.timeout

\* A variant of the loop condition that lets a budget of 0 through; the
\* loop-condition property must fail under it.
LoopCondition_NonNegative(remaining) ==
    remaining = None \/ Val(remaining) >= 0

\* `remaining_timeout is None or remaining_timeout > 0`
LoopCondition(remaining) == remaining = None \/ Val(remaining) > 0

\* (step_start - step_end).total_seconds() for a check that took d.
StepDuration(d) == 0 - d

\* `remaining_timeout -= step_duration.total_seconds()`
Decrement(remaining, d) ==
    Some(Min(Val(remaining) - StepDuration(d), MaxRemaining))

\* A variant of the sleep test without the factor 1.5; the sleep property
\* must fail under it.
ShouldSleep_WithoutFactor(remaining) ==
    Val(remaining) > CHECK_STATE_WAIT_BETWEEN_CALLS

\* `remaining_timeout > wait_secs * 1.5`
ShouldSleep(remaining) ==
    2 * Val(remaining) > 3 * CHECK_STATE_WAIT_BETWEEN_CALLS

\* A variant of the loop that never recognises the arrived state; the
\* stop-at-arrived property must fail under it.
HasArrived_Never(resp) == FALSE

\* `state_response.state == STATE_ARRIVED`
HasArrived(resp) == ResponseState(resp) = Some(STATE_ARRIVED)

\* Two variants of the loop's error handling: one swallows every error, the
\* other re-raises a timeout when fail_silently is false; the propagation
\* property must fail under the first, the swallowing property under the
\* second.
Reraise_Never(error, fail_silently) == FALSE

Reraise_IgnoringTimeout(error, fail_silently) == ~ fail_silently

\* `not error.is_timeout() and not fail_silently`: the error is re-raised.
Reraise(error, fail_silently) == ~ IsTimeout(error) /\ ~ fail_silently

\* A variant of the loop that forgets the earlier packet when a check
\* raises; the returned-packet property must fail under it.
AfterCheck_Cleared(state_response, r) ==
    IF r.raised THEN None ELSE r.value

\* The local state_response after the try statement of lines 406-414, the
\* check having ended as r: line 407 assigns it only when the call returns.
AfterCheck(state_response, r) ==
    IF r.raised THEN state_response ELSE r.value

\* A variant of the loop that hands its own fail_silently to
\* check_sms_state; the inner-arguments property must fail under it.
InnerFailSilently_AsGiven(fail_silently) == fail_silently

\* A variant of the loop whose state checks always suppress their errors;
\* the property that a packet is there to be read must fail under it.
InnerFailSilently_Always(fail_silently) == TRUE

\* The fail_silently argument of the loop's call of check_sms_state.
InnerFailSilently(fail_silently) == FALSE

Inc(n) == Min(n + 1, MaxCount)

(***************************************************************************)
(* The state: one SMSService, one SMS, and the call in progress or last    *)
(* completed.                                                              *)
(***************************************************************************)
VARIABLES
    service,            \* the SMSService: username, password, timeout
    sms,                \* the SMS: flags, put_response, state_response
    call,               \* the current or last call: op and arguments
    result,             \* its status, returned value or raised exception
    log,                \* the errors logged at error severity by this call
    posts,              \* the HTTP POSTs issued by this call
    pc,                 \* position in wait_until_arrived
    remaining_timeout,  \* local of wait_until_arrived
    state_response,     \* local of wait_until_arrived
    checks,             \* check_sms_state calls made by wait_until_arrived
    sleeps,             \* time.sleep calls made by wait_until_arrived
    check_error,        \* what its last check_sms_state call raised, if any
    elapsed             \* wall-clock time since `start` (line 402) while
                        \* wait_until_arrived runs, 0 when it does not

vars ==
    << service, sms, call, result, log, posts, pc, remaining_timeout,
       state_response, checks, sleeps, check_error, elapsed >>

Usernames == {None, Some(<<"u">>)}

Passwords == {Some(<< >>), Some(<<"p">>)}

ServiceTimeouts == {None, Some(0), Some(MaxTimeout - 1)}

\* Timeouts given to wait_until_arrived: absent, negative, zero, less than
\* the 0.5 s between two checks, and large.
TimeoutArgs == {None, Some(0 - 1), Some(0), Some(1), Some(MaxTimeout)}

\* Timeouts given to put_sms and check_sms_state.
CallTimeouts == {None, Some(0), Some(MaxTimeout)}

\* Timeouts given to send, send_sms and check_state.
SMSTimeouts == {None, Some(MaxTimeout)}

Handles == {None, Some(<< >>), Some(<<"h">>)}

\* (registered_delivery, debug) of the messages a caller builds.
SMSFlags == {<<TRUE, FALSE>>, <<FALSE, FALSE>>, <<TRUE, TRUE>>}

ConfigFields == {"username", "password", "timeout"}

\* The values configure may be given for a field.
FieldValues(name) ==
    CASE name = "username" -> Usernames
      [] name = "password" -> Passwords
      [] name = "timeout"  -> ServiceTimeouts

\* The keyword arguments of configure: for each field, None when the field
\* is not named and Some(value) when it is.
Kwargs ==
    [name \in ConfigFields |-> {None} \cup {Some(v) : v \in FieldValues(name)}]

NoPosts == [n |-> 0, urls |-> {}, last |-> None]

\* The POSTs of a call after those of one more low-level call.
AddPosts(ps, new) ==
    IF new = << >> THEN ps
    ELSE [n    |-> Min(ps.n + Len(new), MaxCount),
          urls |-> ps.urls \cup {new[i].url : i \in 1..Len(new)},
          last |-> Some(new[Len(new)])]

Call(op, handle_id, timeout, fail_silently) ==
    [op |-> op, handle_id |-> handle_id, timeout |-> timeout,
     fail_silently |-> fail_silently]

\* The outcome of a finished call as kept in `result`.
Outcome(r) ==
    [status |-> IF r.raised THEN "raised" ELSE "returned",
     value  |-> r.value,
     exc    |-> r.exc]

WaitIdle ==
    /\ pc' = "idle"
    /\ remaining_timeout' = None
    /\ state_response' = None
    /\ checks' = 0
    /\ sleeps' = 0
    /\ check_error' = None
    /\ elapsed' = 0

\* SMS.__init__
NewSMS(registered_delivery, debug) ==
    [registered_delivery |-> registered_delivery, debug |-> debug,
     put_response |-> None, state_response |-> None]

\* SMSService.__init__ with the caller's arguments, and SMS.__init__ with
\* the default flags.
Init ==
    /\ service \in [username : Usernames, password : Passwords,
                    timeout : ServiceTimeouts]
    /\ sms = NewSMS(TRUE, FALSE)
    /\ call = Call("init", None, None, FALSE)
    /\ result = [status |-> "returned", value |-> None, exc |-> None]
    /\ log = << >>
    /\ posts = NoPosts
    /\ pc = "idle"
    /\ remaining_timeout = None
    /\ state_response = None
    /\ checks = 0
    /\ sleeps = 0
    /\ check_error = None
    /\ elapsed = 0

\* A call that runs to completion in one step: its arguments and result.
Complete(op, handle_id, timeout, fail_silently, r, m) ==
    /\ call' = Call(op, handle_id, timeout, fail_silently)
    /\ result' = Outcome(r)
    /\ log' = r.log
    /\ posts' = AddPosts(NoPosts, r.posts)
    /\ sms' = m
    /\ WaitIdle

\* A variant of configure that resets the fields it is not given, as
\* __init__ would; the frame property must fail under it.
Configured_Resetting(self, kwargs) ==
    [username |-> IF kwargs.username # None THEN Val(kwargs.username)
                  ELSE None,
     password |-> IF kwargs.password # None THEN Val(kwargs.password)
                  ELSE None,
     timeout  |-> IF kwargs.timeout # None THEN Val(kwargs.timeout)
                  ELSE None]

\* The service after `for name, value in kwargs.items(): setattr(...)`;
\* kwargs holds None for a field that is not named and Some(value) for one
\* that is.
Configured(self, kwargs) ==
    [username |-> IF kwargs.username # None THEN Val(kwargs.username)
                  ELSE self.username,
     password |-> IF kwargs.password # None THEN Val(kwargs.password)
                  ELSE self.password,
     timeout  |-> IF kwargs.timeout # None THEN Val(kwargs.timeout)
                  ELSE self.timeout]

\* SMSService.configure(**kwargs) and the module-level configure.
Configure ==
    /\ pc = "idle"
    /\ \E username \in Kwargs["username"], password \in Kwargs["password"],
          timeout \in Kwargs["timeout"] :
           LET kwargs == [username |-> username, password |-> password,
                          timeout |-> timeout]
           IN  /\ service' = Configured(service, kwargs)
               /\ call' = [op |-> "configure", kwargs |-> kwargs]
    /\ result' = Outcome(Return(None, << >>, << >>))
    /\ log' = << >>
    /\ posts' = NoPosts
    /\ sms' = sms
    /\ WaitIdle

\* A call of SMSService.put_sms.
CallPutSms ==
    /\ pc = "idle"
    /\ \E timeout \in CallTimeouts, fail_silently \in BOOLEAN,
          outcome \in PutOutcomes :
           \E r \in {PutSms(service, timeout, fail_silently, outcome)} :
               Complete("put_sms", None, timeout, fail_silently, r, sms)
    /\ UNCHANGED service

\* A call of SMSService.check_sms_state, or of the module-level shortcut
\* check_sms_state, which returns the state of the response.
CallCheckSmsState ==
    /\ pc = "idle"
    /\ \E handle_id \in Handles, timeout \in CallTimeouts,
          fail_silently \in BOOLEAN, outcome \in StateOutcomes :
           \E r \in {CheckSmsState(service, handle_id, timeout, fail_silently,
                                   outcome)} :
               \/ Complete("check_sms_state", handle_id, timeout,
                           fail_silently, r, sms)
               \/ Complete("check_sms_state_shortcut", handle_id, timeout,
                           fail_silently, MapValue(r, StateOrNone(r.value)),
                           sms)
    /\ UNCHANGED service

\* The caller builds a new message.
CallNewSMS ==
    /\ pc = "idle"
    /\ \E f \in SMSFlags :
           Complete("SMS", None, None, FALSE, Return(None, << >>, << >>),
                    NewSMS(f[1], f[2]))
    /\ UNCHANGED service

\* A call of SMSService.send (or SMS.send) on the message.
CallSend ==
    /\ pc = "idle"
    /\ \E timeout \in SMSTimeouts, fail_silently \in BOOLEAN,
          outcome \in PutOutcomes :
           \E r \in {PutSms(service, timeout, fail_silently, outcome)} :
               \E s \in {SendTail(sms, r)} :
                   Complete("send", None, timeout, fail_silently, s.r, s.sms)
    /\ UNCHANGED service

\* A call of the shortcut send_sms: a fresh SMS is built, sent and dropped.
CallSendSms ==
    /\ pc = "idle"
    /\ \E f \in SMSFlags, timeout \in SMSTimeouts,
          fail_silently \in BOOLEAN, outcome \in PutOutcomes :
           \E r \in {PutSms(service, timeout, fail_silently, outcome)} :
               \E s \in {SendTail(NewSMS(f[1], f[2]), r)} :
                   Complete("send_sms", None, timeout, fail_silently, s.r,
                            sms)
    /\ UNCHANGED service

\* A call of SMSService.check_state (or SMS.check_state) with wait=False.
CallCheckState ==
    /\ pc = "idle"
    /\ \E timeout \in SMSTimeouts, fail_silently \in BOOLEAN,
          outcome \in StateOutcomes :
           \E r \in {CheckSmsState(service, SMSHandleId(sms), timeout,
                                   fail_silently, outcome)} :
               \E s \in {CheckStateTail(sms, r)} :
                   Complete("check_state", SMSHandleId(sms), timeout,
                            fail_silently, s.r, s.sms)
    /\ UNCHANGED service

\* What the caller of wait_until_arrived does with its result r: the method
\* itself, the module-level shortcut, or check_state with wait=True.
WaitReturn(op, m, r) ==
    CASE op = "wait_until_arrived" -> [r |-> r, sms |-> m]
      [] op = "wait_until_arrived_shortcut" ->
             [r |-> MapValue(r, StateOrNone(r.value)), sms |-> m]
      [] op = "check_state_wait" -> CheckStateTail(m, r)

\* wait_until_arrived ends with r, its locals being rem and resp.
WaitEnd(op, r, rem, resp) ==
    /\ \E s \in {WaitReturn(op, sms, r)} :
           /\ result' = Outcome(s.r)
           /\ sms' = s.sms
    /\ pc' = "idle"
    /\ remaining_timeout' = rem
    /\ state_response' = resp

\* Lines 401-404: the call begins; the loop is entered or skipped.
WaitBegin(op, handle_id, timeout, fail_silently) ==
    LET rem == InitialRemaining(service, timeout)
    IN  /\ pc = "idle"
        /\ call' = Call(op, handle_id, timeout, fail_silently)
        /\ IF LoopCondition(rem)
           THEN /\ result' = [status |-> "running", value |-> None,
                              exc |-> None]
                /\ pc' = "loop"
                /\ remaining_timeout' = rem
                /\ state_response' = None
                /\ sms' = sms
           ELSE WaitEnd(op, Return(None, << >>, << >>), rem, None)
        /\ log' = << >>
        /\ posts' = NoPosts
        /\ checks' = 0
        /\ sleeps' = 0
        /\ check_error' = None
        /\ elapsed' = 0
        /\ UNCHANGED service

\* A call of SMSService.wait_until_arrived or of the module-level shortcut.
CallWaitUntilArrived ==
    \E op \in {"wait_until_arrived", "wait_until_arrived_shortcut"},
       handle_id \in Handles, timeout \in TimeoutArgs,
       fail_silently \in BOOLEAN :
        WaitBegin(op, handle_id, timeout, fail_silently)

\* A call of SMSService.check_state (or SMS.check_state) with wait=True.
CallCheckStateWait ==
    \E timeout \in SMSTimeouts, fail_silently \in BOOLEAN :
        WaitBegin("check_state_wait", SMSHandleId(sms), timeout,
                  fail_silently)

\* Lines 405-434: one iteration of the loop, the check taking d.
WaitCheck ==
    /\ pc = "loop"
    /\ \E outcome \in StateOutcomes, d \in 1..MaxStepDur :
           \E r \in {CheckSmsState(service, call.handle_id, remaining_timeout,
                                   InnerFailSilently(call.fail_silently),
                                   outcome)} :
           LET rem  == Decrement(remaining_timeout, d)
               resp == AfterCheck(state_response, r)
           IN  /\ log' = log \o r.log
               /\ check_error' = r.exc
               /\ posts' = AddPosts(posts, r.posts)
               /\ IF r.raised
                  THEN IF Reraise(Val(r.exc), call.fail_silently)
                       THEN WaitEnd(call.op, Raise(Val(r.exc), << >>, << >>),
                                    remaining_timeout, resp)
                       ELSE WaitEnd(call.op, Return(resp, << >>, << >>),
                                    remaining_timeout, resp)
                  ELSE IF resp = None
                  THEN \* `state_response.state` of None
                       WaitEnd(call.op,
                               Raise(NewError("AttributeError", None, None),
                                     << >>, << >>),
                               remaining_timeout, None)
                  ELSE IF HasArrived(Val(resp))
                  THEN WaitEnd(call.op, Return(resp, << >>, << >>),
                               remaining_timeout, resp)
                  ELSE IF remaining_timeout = None
                  THEN /\ pc' = "loop"
                       /\ state_response' = resp
                       /\ UNCHANGED << result, sms, remaining_timeout >>
                  ELSE IF ShouldSleep(rem)
                  THEN /\ pc' = "sleep"
                       /\ state_response' = resp
                       /\ remaining_timeout' = rem
                       /\ UNCHANGED << result, sms >>
                  ELSE IF LoopCondition(rem)
                  THEN /\ pc' = "loop"
                       /\ state_response' = resp
                       /\ remaining_timeout' = rem
                       /\ UNCHANGED << result, sms >>
                  ELSE WaitEnd(call.op, Return(resp, << >>, << >>),
                               rem, resp)
               /\ elapsed' = IF pc' = "idle" THEN 0
                             ELSE Min(elapsed + d, MaxElapsed)
    /\ checks' = Inc(checks)
    /\ UNCHANGED << service, call, sleeps >>

\* Line 434: time.sleep(wait_secs), then the loop condition, which holds.
WaitSleep ==
    /\ pc = "sleep"
    /\ pc' = "loop"
    /\ sleeps' = Inc(sleeps)
    /\ elapsed' = Min(elapsed + CHECK_STATE_WAIT_BETWEEN_CALLS, MaxElapsed)
    /\ UNCHANGED << service, sms, call, result, log, posts,
                    remaining_timeout, state_response, checks, check_error >>

\* The low-level calls on the service.
NextService ==
    \/ Configure
    \/ CallPutSms
    \/ CallCheckSmsState

\* The polling call.
NextPoll ==
    \/ CallWaitUntilArrived
    \/ WaitCheck
    \/ WaitSleep

\* The calls on a message.
NextSMS ==
    \/ CallNewSMS
    \/ CallSend
    \/ CallSendSms
    \/ CallCheckState
    \/ CallCheckStateWait
    \/ WaitCheck
    \/ WaitSleep

\* The operations of SMSService that issue POSTs, on the service as
\* constructed and on one message.
NextCalls ==
    \/ CallPutSms
    \/ CallCheckSmsState
    \/ CallSend
    \/ CallWaitUntilArrived
    \/ WaitCheck
    \/ WaitSleep

Next == NextService \/ NextPoll \/ NextSMS

Spec == Init /\ [][Next]_vars

SpecService == Init /\ [][NextService]_vars

SpecPoll == Init /\ [][NextPoll]_vars

SpecSMS == Init /\ [][NextSMS]_vars

SpecCalls == Init /\ [][NextCalls]_vars

\* The interpreter runs a call in progress on: the loop of
\* wait_until_arrived is blocking code of a single thread.
FairPoll == SpecPoll /\ WF_vars(WaitCheck) /\ WF_vars(WaitSleep)

(***************************************************************************)
(* SMSResponse(response_text) alone, for every text of up to MaxLines      *)
(* lines drawn from ResponseLines.                                         *)
(***************************************************************************)
\* The lines of the texts: empty, without '=', with '=', with blanks around
\* key and value, with the key of another line, with '=' in the value, and
\* with an empty key.
ResponseLines ==
    { << >>,
      <<"S">>,
      <<"a", "=", "1">>,
      <<" ", "a", " ", "=", " ", "2", " ">>,
      <<"b", "=", "x", "=", "y">>,
      <<"=", "3">> }

LineSeqs == UNION {[1..n -> ResponseLines] : n \in 0..MaxLines}

\* The text whose lines are `lines`: the lines separated by newlines.
RECURSIVE JoinLines(_)
JoinLines(lines) ==
    IF lines = << >> THEN << >>
    ELSE IF Len(lines) = 1 THEN lines[1]
    ELSE lines[1] \o <<NL>> \o JoinLines(Tail(lines))

\* A caller is about to build SMSResponse(response_text).
InitParse ==
    /\ service = [username |-> None, password |-> None, timeout |-> None]
    /\ sms = NewSMS(TRUE, FALSE)
    /\ \E lines \in LineSeqs :
           call = [op |-> "SMSResponse", lines |-> lines,
                   response_text |-> JoinLines(lines)]
    /\ result = [status |-> "running", value |-> None, exc |-> None]
    /\ log = << >>
    /\ posts = NoPosts
    /\ pc = "idle"
    /\ remaining_timeout = None
    /\ state_response = None
    /\ checks = 0
    /\ sleeps = 0
    /\ check_error = None
    /\ elapsed = 0

\* SMSResponse.__init__(response_text)
NewSMSResponse ==
    /\ call.op = "SMSResponse"
    /\ result.status = "running"
    /\ result' = [status |-> "returned",
                  value  |-> Some(SMSResponse(call.response_text)),
                  exc    |-> None]
    /\ UNCHANGED << service, sms, call, log, posts, pc, remaining_timeout,
                    state_response, checks, sleeps, check_error, elapsed >>

SpecParse == InitParse /\ [][NewSMSResponse]_vars

(***************************************************************************)
(* Properties.                                                             *)
(***************************************************************************)
WaitCall ==
    call.op \in {"wait_until_arrived", "wait_until_arrived_shortcut",
                 "check_state_wait"}

LowLevelCall ==
    call.op \in {"put_sms", "check_sms_state", "check_sms_state_shortcut"}

\* The polling call is over.
WaitOver == WaitCall /\ pc = "idle"

\* The outcome of the last POST of the call.
LastOutcome == Val(posts.last).outcome

\* C1: a call of wait_until_arrived with a finite positive budget whose
\* state checks all succeed with a state other than 'arrived', each taking
\* a positive time, eventually returns.  (While the loop runs, every check
\* so far has succeeded with such a state: any other outcome ends the call.)
C1_PollingTerminates ==
    (pc # "idle" /\ remaining_timeout # None) ~> (pc = "idle")

\* C2: when the k-th answer of the state-check endpoint is the first with
\* the state 'arrived', wait_until_arrived has made exactly k state checks,
\* makes no more, and returns the packet with the state 'arrived'.
C2_StopsAtArrived ==
    (/\ WaitCall
     /\ posts.last # None
     /\ LastOutcome = TextOutcome(TEXT_ARRIVED))
    => /\ pc = "idle"
       /\ checks = posts.n
       /\ result.status = "returned"
       /\ state_response = Some(SMSResponse(TEXT_ARRIVED))
       /\ call.op = "wait_until_arrived" => result.value = state_response
       /\ call.op = "wait_until_arrived_shortcut"
              => result.value = Some(STATE_ARRIVED)

C2_Witness ==
    /\ call.op = "wait_until_arrived"
    /\ pc = "idle"
    /\ checks = 3
    /\ posts.n = 3
    /\ LastOutcome = TextOutcome(TEXT_ARRIVED)
    /\ result.status = "returned"
    /\ ResponseState(Val(result.value)) = Some(STATE_ARRIVED)

\* C3: with fail_silently=False, when a state check of wait_until_arrived
\* raises an error that is not a timeout, that error is raised to the
\* caller and no further state check is made.
C3_NonTimeoutErrorPropagates ==
    (/\ WaitCall
     /\ ~ call.fail_silently
     /\ check_error # None
     /\ ~ (/\ Val(check_error).original_exception # None
           /\ Val(Val(check_error).original_exception).type
                  \in {"ConnectTimeout", "ReadTimeout"}))
    => /\ pc = "idle"
       /\ result.status = "raised"
       /\ result.exc = check_error

C3_Witness ==
    /\ call.op = "wait_until_arrived"
    /\ ~ call.fail_silently
    /\ pc = "idle"
    /\ checks = 2
    /\ check_error # None
    /\ Val(check_error).class = "RequestError"
    /\ result.status = "raised"
    /\ result.exc = check_error

\* C4: when a state check of wait_until_arrived raises an error that is a
\* timeout, or any error while fail_silently is true, the loop stops at
\* once without raising and the call returns the packet of its last
\* successful check, or None if no check succeeded.
C4_SwallowedErrorEndsLoop ==
    (/\ WaitCall
     /\ check_error # None
     /\ \/ call.fail_silently
        \/ /\ Val(check_error).original_exception # None
           /\ Val(Val(check_error).original_exception).type
                  \in {"ConnectTimeout", "ReadTimeout"})
    => /\ pc = "idle"
       /\ result.status = "returned"
       /\ call.op = "wait_until_arrived" => result.value = state_response
       /\ call.op = "wait_until_arrived_shortcut"
              => result.value = StateOrNone(state_response)
       /\ (checks = 1) => state_response = None
       /\ (checks > 1) => state_response # None

C4_Witness ==
    /\ call.op = "wait_until_arrived"
    /\ call.fail_silently
    /\ pc = "idle"
    /\ checks = 2
    /\ check_error # None
    /\ Val(check_error).class = "CommunicationError"
    /\ Val(Val(check_error).original_exception).type = "ConnectionError"
    /\ result.status = "returned"
    /\ result.value = Some(SMSResponse(TEXT_PROCESSED))

\* The service has no username or no password (absent or empty).
NoCredentials ==
    \/ service.username \in {None, Some(<< >>)}
    \/ service.password \in {None, Some(<< >>)}

\* The call was given no handle (absent or empty).
NoHandle == call.handle_id \in {None, Some(<< >>)}

\* The call is over and raised an exception of class cls.
Raised(cls) ==
    /\ pc = "idle"
    /\ result.status = "raised"
    /\ Val(result.exc).class = cls

\* C5: in every operation that takes fail_silently, missing credentials
\* raise ConfigurationError and a missing handle raises ValidationError to
\* the caller, whatever fail_silently is.
C5_ConfigurationAndValidationErrorsRaise ==
    /\ (/\ pc = "idle"
        /\ call.op \in {"put_sms", "check_sms_state",
                        "check_sms_state_shortcut", "wait_until_arrived",
                        "wait_until_arrived_shortcut", "send", "send_sms",
                        "check_state", "check_state_wait"}
        /\ NoCredentials)
       => Raised("ConfigurationError")
    /\ (/\ pc = "idle"
        /\ call.op \in {"check_sms_state", "check_sms_state_shortcut",
                        "wait_until_arrived", "wait_until_arrived_shortcut",
                        "check_state", "check_state_wait"}
        /\ ~ NoCredentials
        /\ NoHandle)
       => Raised("ValidationError")

\* C6: while the username or the password is absent or empty, put_sms and
\* check_sms_state raise ConfigurationError and issue no POST; building
\* the client without credentials does not raise.
C6_NoCredentialsNoPost ==
    /\ (LowLevelCall /\ NoCredentials)
       => (Raised("ConfigurationError") /\ posts.n = 0 /\ posts.last = None)
    /\ call.op = "init" => result.status = "returned"

C6_Witness ==
    /\ call.op = "put_sms"
    /\ service.username = Some(<<"u">>)
    /\ service.password = Some(<< >>)
    /\ call.fail_silently
    /\ Raised("ConfigurationError")
    /\ posts.n = 0

\* C7: with credentials, check_sms_state with an absent or empty handle
\* raises ValidationError and issues no POST, for every timeout and
\* fail_silently.
C7_NoHandleNoPost ==
    (/\ call.op \in {"check_sms_state", "check_sms_state_shortcut"}
     /\ ~ NoCredentials
     /\ NoHandle)
    => (Raised("ValidationError") /\ posts.n = 0 /\ posts.last = None)

C7_Witness ==
    /\ call.op = "check_sms_state"
    /\ ~ NoCredentials
    /\ call.handle_id = Some(<< >>)
    /\ call.fail_silently
    /\ call.timeout = Some(0)
    /\ Raised("ValidationError")
    /\ posts.n = 0

\* The POST of the call ended in a fault of the transport.
Faulted == posts.last # None /\ LastOutcome.kind = "fault"

\* The POST of the call was answered with a body whose first line is ERROR.
ErrorAnswered ==
    /\ posts.last # None
    /\ LastOutcome.kind = "response"
    /\ SplitLines(LastOutcome.text) # << >>
    /\ Head(SplitLines(LastOutcome.text)) = MESSAGE_ERROR

\* C8: _request classifies an HTTP-status fault as RequestError and every
\* other transport fault as CommunicationError, each wrapping the fault;
\* is_timeout is true exactly when the wrapped fault is a timeout, and so is
\* false for the RequestError of an HTTP status or of an ERROR line.
C8_Classification ==
    /\ (LowLevelCall /\ Faulted)
       => /\ Len(log) = 1
          /\ log[1].class = IF LastOutcome.error.type = "HTTPError"
                            THEN "RequestError" ELSE "CommunicationError"
          /\ log[1].original_exception = Some(LastOutcome.error)
          /\ IsTimeout(log[1])
                 <=> LastOutcome.error.type \in {"ConnectTimeout",
                                                 "ReadTimeout"}
          /\ result.status = "raised" => result.exc = Some(log[1])
    /\ (LowLevelCall /\ ErrorAnswered)
       => /\ Len(log) = 1
          /\ log[1].class = "RequestError"
          /\ ~ IsTimeout(log[1])
          /\ result.status = "raised" => result.exc = Some(log[1])

C8_Witness ==
    /\ call.op = "check_sms_state"
    /\ Faulted
    /\ LastOutcome.error.type = "ReadTimeout"
    /\ Raised("CommunicationError")
    /\ IsTimeout(Val(result.exc))

\* C9: when the response's status line is ERROR, put_sms and
\* check_sms_state with fail_silently=False raise RequestError whose message
\* is the value of the response's error attribute.
C9_MessageIsErrorAttribute ==
    (LowLevelCall /\ ~ call.fail_silently /\ ErrorAnswered)
    => /\ Raised("RequestError")
       /\ Some(Val(result.exc).message)
              = ResponseError(SMSResponse(LastOutcome.text))

\* What the code does for C9's case: the message is the value of the error
\* attribute when the attribute is present and not empty, and the text
\* 'None' (str(None), line 32) when it is absent or empty.
C9_MessageIsErrorAttributeOrNone ==
    (LowLevelCall /\ ~ call.fail_silently /\ ErrorAnswered)
    => /\ Raised("RequestError")
       /\ Val(result.exc).message
              = IF ResponseError(SMSResponse(LastOutcome.text))
                       \in {None, Some(<< >>)}
                THEN STR_NONE
                ELSE Val(ResponseError(SMSResponse(LastOutcome.text)))

C9_Witness ==
    /\ call.op = "put_sms"
    /\ ~ call.fail_silently
    /\ ErrorAnswered
    /\ LastOutcome.text = TEXT_ERROR
    /\ Raised("RequestError")
    /\ Val(result.exc).message = <<"b", "a", "d">>

\* C10: for put_sms and check_sms_state with credentials and a handle, every
\* failing outcome of the POST (a fault, or a response whose status line is
\* ERROR) makes the call return None without raising when fail_silently is
\* true, and raise when it is false.
C10_FailSilently ==
    (LowLevelCall /\ (Faulted \/ ErrorAnswered))
    => IF call.fail_silently
       THEN result.status = "returned" /\ result.value = None
       ELSE result.status = "raised"

C10_Witness ==
    /\ call.op = "put_sms"
    /\ call.fail_silently
    /\ ErrorAnswered
    /\ result.status = "returned"
    /\ result.value = None
    /\ Len(log) = 1

\* C11: every state check of wait_until_arrived is made with
\* fail_silently=False, whatever the caller's fail_silently, and with the
\* current remaining budget as its timeout: the POST it issues carries both,
\* and a failing POST reaches the loop as a raised error.
C11_InnerCheckArguments ==
    [][pc = "loop"
       => /\ (~ NoCredentials /\ ~ NoHandle)
             => /\ posts'.last # None
                /\ Val(posts'.last).url = "state"
                /\ Val(posts'.last).fail_silently = FALSE
                /\ Val(posts'.last).timeout = remaining_timeout
          /\ (/\ posts'.last # None
              /\ \/ Val(posts'.last).outcome.kind = "fault"
                 \/ IsError(ParsedResponse[Val(posts'.last).outcome.text]))
             => check_error' # None]_vars

C11_Witness ==
    /\ call.op = "wait_until_arrived"
    /\ call.fail_silently
    /\ call.timeout = Some(MaxTimeout)
    /\ checks = 2
    /\ posts.last # None
    /\ Val(posts.last).fail_silently = FALSE
    /\ Val(posts.last).timeout # call.timeout
    /\ check_error # None
    /\ pc = "idle"

\* The submission response is an OK response.
PutResponseOk == sms.put_response # None /\ IsOk(Val(sms.put_response))

ReturnedPacket ==
    IF posts.last = None \/ Faulted \/ ErrorAnswered THEN None
    ELSE Some(SMSResponse(LastOutcome.text))

\* C13: after SMSService.send, put_response is the packet the submit call
\* returned, and None when it raised; after SMSService.check_state,
\* state_response is the packet the state-check or wait call returned, and
\* None when it raised.  The slot never keeps the value of an earlier call.
C13_SlotsFollowLastCall ==
    /\ (call.op = "send" /\ pc = "idle")
       => sms.put_response = IF result.status = "raised" THEN None
                             ELSE ReturnedPacket
    /\ (call.op = "check_state" /\ pc = "idle")
       => sms.state_response = IF result.status = "raised" THEN None
                               ELSE ReturnedPacket
    /\ (call.op = "check_state_wait" /\ pc = "idle")
       => sms.state_response = IF result.status = "raised" THEN None
                               ELSE state_response

\* A send that raised after an earlier send and check_state had filled both
\* slots: put_response is None again.
C13_Witness ==
    /\ call.op = "send"
    /\ pc = "idle"
    /\ result.status = "raised"
    /\ Val(result.exc).class = "CommunicationError"
    /\ sms.put_response = None
    /\ sms.state_response # None

\* C14: in every state of an SMS, handle_id is the 'handle' attribute of
\* put_response, or None when put_response is unset; state is the 'state'
\* attribute of state_response when that is set, otherwise that of
\* put_response, or None when both are unset.  check_state hands this
\* handle_id to the state check.
C14_DerivedProperties ==
    /\ SMSHandleId(sms) = IF sms.put_response = None THEN None
                          ELSE Get(Val(sms.put_response), KEY_HANDLE)
    /\ SMSState(sms) = IF sms.state_response # None
                       THEN Get(Val(sms.state_response), KEY_STATE)
                       ELSE IF sms.put_response # None
                       THEN Get(Val(sms.put_response), KEY_STATE)
                       ELSE None
    /\ call.op \in {"check_state", "check_state_wait"}
       => call.handle_id = IF sms.put_response = None THEN None
                           ELSE Get(Val(sms.put_response), KEY_HANDLE)

\* Both slots are set and carry different states: state is that of
\* state_response.
C14_Witness ==
    /\ sms.put_response = Some(SMSResponse(TEXT_PUT_OK))
    /\ sms.state_response = Some(SMSResponse(TEXT_ARRIVED))
    /\ SMSHandleId(sms) = Some(<<"h">>)
    /\ SMSState(sms) = Some(STATE_ARRIVED)
    /\ Get(Val(sms.put_response), KEY_STATE) = Some(<<"n", "e", "w">>)
    /\ call.op = "check_state"

\* C15: a call of put_sms, check_sms_state or send issues at most one
\* POST, whatever its outcome; no call issues the submission POST twice; only
\* wait_until_arrived issues more than one POST in a call, and its POSTs
\* all go to the state-check endpoint.
C15_AtMostOnePost ==
    /\ call.op \in {"put_sms", "check_sms_state", "check_sms_state_shortcut",
                    "send"}
       => posts.n <= 1
    /\ "put" \in posts.urls
       => (posts.n = 1 /\ call.op \in {"put_sms", "send"})
    /\ posts.n > 1 => WaitCall
    /\ WaitCall => (posts.urls \subseteq {"state"} /\ posts.n <= checks)

\* A send whose POST failed and was suppressed: one POST, not repeated.
C15_Witness ==
    /\ call.op = "send"
    /\ call.fail_silently
    /\ Faulted
    /\ result.status = "returned"
    /\ posts.n = 1
    /\ posts.urls = {"put"}

\* A polling call with several POSTs.
C15_WitnessPoll ==
    /\ call.op = "wait_until_arrived"
    /\ posts.n = 3
    /\ posts.urls = {"state"}

\* The packet of the POST just made, as parsed.
LastPacket == Some(ParsedResponse[LastOutcome.text])

\* C16: whenever wait_until_arrived returns without raising, its result is
\* the packet of the most recent successful state check of this call, and
\* None exactly when no state check of this call succeeded.  Step by step:
\* a successful check makes its packet the one kept, a failed check leaves
\* the kept packet alone, no packet is kept exactly when no check has
\* succeeded (a failed check is the last one), and the kept packet is what
\* is returned (its state, for the shortcut).
C16_ReturnsLastPacket ==
    [][/\ pc = "loop"
          => IF check_error' = None
             THEN state_response' = LastPacket'
             ELSE state_response' = state_response
       /\ WaitCall'
          => (state_response' = None
                 <=> \/ checks' = 0
                     \/ checks' = 1 /\ check_error' # None)
       /\ (WaitCall' /\ pc' = "idle" /\ result'.status = "returned")
          => result'.value
                 = IF call'.op = "wait_until_arrived_shortcut"
                   THEN IF state_response' = None THEN None
                        ELSE Get(Val(state_response'), KEY_STATE)
                   ELSE state_response']_vars

\* A timeout of the third check ends the call, which returns the packet of
\* the second.
C16_Witness ==
    /\ call.op = "wait_until_arrived"
    /\ ~ call.fail_silently
    /\ pc = "idle"
    /\ checks = 3
    /\ check_error # None
    /\ IsTimeout(Val(check_error))
    /\ result.status = "returned"
    /\ result.value = Some(SMSResponse(TEXT_OTHER))

\* What C17 says of one line: whether it has a '=', and the key and value
\* around its first '=', without the blanks at their ends.
HasEq(line) == \E i \in 1..Len(line) : line[i] = EQ

FirstEq(line) ==
    CHOOSE i \in 1..Len(line) :
        line[i] = EQ /\ \A j \in 1..(i - 1) : line[j] # EQ

Trimmed(s) ==
    LET inked == {i \in 1..Len(s) : s[i] \notin Whitespace}
    IN  IF inked = {} THEN << >>
        ELSE SubSeq(s,
                    CHOOSE i \in inked : \A j \in inked : i <= j,
                    CHOOSE i \in inked : \A j \in inked : i >= j)

KeyOf(line) == Trimmed(SubSeq(line, 1, FirstEq(line) - 1))

ValueOf(line) == Trimmed(SubSeq(line, FirstEq(line) + 1, Len(line)))

\* The lines after the first that carry an attribute.
AttributeLines(lines) == {i \in 2..Len(lines) : HasEq(lines[i])}

\* The first and the last attribute line with the key of line i.
FirstWithKey(lines, i) ==
    CHOOSE j \in AttributeLines(lines) :
        /\ KeyOf(lines[j]) = KeyOf(lines[i])
        /\ \A k \in AttributeLines(lines) :
               KeyOf(lines[k]) = KeyOf(lines[i]) => j <= k

LastWithKey(lines, i) ==
    CHOOSE j \in AttributeLines(lines) :
        /\ KeyOf(lines[j]) = KeyOf(lines[i])
        /\ \A k \in AttributeLines(lines) :
               KeyOf(lines[k]) = KeyOf(lines[i]) => j >= k

\* C17: for every response text, given as its lines, SMSResponse yields the
\* first line as message (the empty string for the empty text) and one
\* attribute per later line that has a '=': key and value are the texts
\* before and after the first '=', trimmed; lines without '=' are dropped;
\* a key that occurs again keeps its last value; the attributes are in the
\* order in which their keys first appear.
C17_Parsing ==
    call.op = "SMSResponse"
    => /\ result.status = "running" \/ result.status = "returned"
       /\ result.status = "returned"
          => LET resp  == Val(result.value)
                 lines == call.lines
                 attrs == AttributeLines(lines)
             IN  /\ resp.message = IF lines = << >> THEN << >> ELSE lines[1]
                 /\ {resp.data[p][1] : p \in 1..Len(resp.data)}
                        = {KeyOf(lines[i]) : i \in attrs}
                 /\ \A p, q \in 1..Len(resp.data) :
                        p # q => resp.data[p][1] # resp.data[q][1]
                 /\ \A i \in attrs :
                        Get(resp, KeyOf(lines[i]))
                            = Some(ValueOf(lines[LastWithKey(lines, i)]))
                 /\ \A i, j \in attrs :
                        FirstWithKey(lines, i) < FirstWithKey(lines, j)
                        => DictIndex(resp.data, KeyOf(lines[i]), 1)
                               < DictIndex(resp.data, KeyOf(lines[j]), 1)

\* A text with a repeated key, blanks around key and value, a '=' in a
\* value and a line between two attributes of the same key.
C17_Witness ==
    /\ call.op = "SMSResponse"
    /\ call.lines = << <<"S">>, <<"a", "=", "1">>, <<"b", "=", "x", "=", "y">>,
                       <<" ", "a", " ", "=", " ", "2", " ">> >>
    /\ result.status = "returned"
    /\ Val(result.value)
           = [message |-> <<"S">>,
              data    |-> << << <<"a">>, <<"2">> >>,
                             << <<"b">>, <<"x", "=", "y">> >> >>]

\* The empty text.
C17_WitnessEmpty ==
    /\ call.op = "SMSResponse"
    /\ call.response_text = << >>
    /\ result.status = "returned"
    /\ Val(result.value) = [message |-> << >>, data |-> << >>]

\* C18: every ConfigurationError, ValidationError, CommunicationError and
\* RequestError produced by put_sms or check_sms_state is written to the
\* log at error severity before it is raised or suppressed: a raised error
\* is in the log of the call, and a suppressed failure left its error there.
C18_ErrorsLogged ==
    /\ (LowLevelCall /\ result.status = "raised")
       => \E i \in 1..Len(log) : Some(log[i]) = result.exc
    /\ (LowLevelCall /\ (Faulted \/ ErrorAnswered))
       => Len(log) = 1

\* C19: configure sets each field it names to the given value, leaves every
\* field it does not name unchanged, and issues no network call.
C19_ConfigureFrame ==
    [][call'.op = "configure"
       => /\ \A name \in ConfigFields :
                 service'[name] = IF call'.kwargs[name] # None
                                  THEN Val(call'.kwargs[name])
                                  ELSE service[name]
          /\ posts'.n = 0
          /\ posts'.last = None
          /\ result'.status = "returned"]_vars

\* configure(password='p') on a service with a username and a timeout.
C19_Witness ==
    /\ call.op = "configure"
    /\ call.kwargs = [username |-> None, password |-> Some(Some(<<"p">>)),
                      timeout |-> None]
    /\ service = [username |-> Some(<<"u">>), password |-> Some(<<"p">>),
                  timeout |-> Some(MaxTimeout - 1)]
    /\ posts.n = 0

\* C20: in wait_until_arrived with a tracked budget, a successful check
\* that observed a state other than 'arrived' takes its elapsed duration, a
\* non-negative amount, off the remaining budget: from one iteration to the
\* next the remaining budget never increases, and it never exceeds the
\* budget the call began with.
C20_BudgetNeverIncreases ==
    [][(pc = "loop" /\ remaining_timeout # None)
       => /\ remaining_timeout' # None
          /\ Val(remaining_timeout') <= Val(remaining_timeout)
          /\ Val(remaining_timeout')
                 <= Val(InitialRemaining(service, call.timeout))]_vars

\* C21: the initial remaining budget of wait_until_arrived is the caller's
\* timeout whenever the caller gave one, zero included; it is the client's
\* default timeout only when the caller gave none, and absent when both are
\* absent.  (Before the first state check the remaining budget is the
\* initial one.)
C21_InitialBudget ==
    (WaitCall /\ checks = 0)
    => remaining_timeout = IF call.timeout # None THEN call.timeout
                           ELSE service.timeout

\* C22: wait_until_arrived issues a state check only when the remaining
\* budget is absent or greater than 0; when the initial budget is zero or
\* negative it issues no state check and returns None.
C22_ChecksOnlyWithBudget ==
    [][/\ (WaitCall /\ (pc = "loop" \/ checks' > checks))
          => (remaining_timeout = None \/ Val(remaining_timeout) > 0)
       /\ (/\ WaitCall'
           /\ checks' = 0
           /\ remaining_timeout' # None
           /\ Val(remaining_timeout') <= 0)
          => /\ pc' = "idle"
             /\ result'.status = "returned"
             /\ result'.value = None
             /\ posts'.n = 0]_vars

\* A call with a negative timeout: no check, None returned.
C22_Witness ==
    /\ call.op = "wait_until_arrived"
    /\ call.timeout = Some(0 - 1)
    /\ remaining_timeout = Some(0 - 1)
    /\ ~ NoCredentials
    /\ ~ NoHandle
    /\ pc = "idle"
    /\ checks = 0
    /\ posts.n = 0
    /\ result.status = "returned"
    /\ result.value = None

\* A call without timeout on a client whose default timeout is 0.
C22_WitnessZero ==
    /\ call.op = "wait_until_arrived"
    /\ call.timeout = None
    /\ remaining_timeout = Some(0)
    /\ pc = "idle"
    /\ checks = 0
    /\ result.status = "returned"

\* The check just made succeeded and observed a state other than 'arrived'.
ObservedNotArrived ==
    /\ posts.last # None
    /\ check_error = None
    /\ Get(Val(LastPacket), KEY_STATE) # Some(STATE_ARRIVED)

\* C23: with a tracked budget, after a check that observed a state other
\* than 'arrived' the loop sleeps exactly when the updated remaining budget
\* is greater than 0.75 s (3 quarter seconds), and otherwise goes on to the
\* next iteration without sleeping; it never sleeps after an 'arrived'
\* observation or after an error, and it sleeps nowhere else.
C23_SleepExactlyAboveThreshold ==
    [][/\ (WaitCall /\ pc = "loop")
          => /\ sleeps' = sleeps
             /\ pc' = "sleep"
                    <=> /\ ObservedNotArrived'
                        /\ remaining_timeout # None
                        /\ Val(remaining_timeout') > 3
             /\ (/\ ObservedNotArrived'
                 /\ remaining_timeout # None
                 /\ Val(remaining_timeout') > 0
                 /\ Val(remaining_timeout') <= 3)
                => pc' = "loop"
             /\ ~ ObservedNotArrived' => pc' = "idle"
       /\ (WaitCall /\ sleeps' > sleeps)
          => (pc = "sleep" /\ pc' = "loop")]_vars

\* A budget of 0.25 s: no sleep after the first check (the updated budget is
\* at most 0.75 s), a sleep after the second.
C23_Witness ==
    /\ call.op = "wait_until_arrived"
    /\ call.timeout = Some(1)
    /\ checks = 3
    /\ sleeps = 1
    /\ pc = "sleep"

\* C24: with a finite budget T, no sleep is started that would end later
\* than T after the start of the call, the time since the start counting
\* the durations of the state checks and of the sleeps.
C24_NoOversleep ==
    (WaitCall /\ pc = "sleep")
    => elapsed + CHECK_STATE_WAIT_BETWEEN_CALLS
           <= Val(InitialRemaining(service, call.timeout))

\* C25: the timeout put_sms and check_sms_state hand to the POST is the
\* call-site timeout when one is given, zero included; else the client's
\* default timeout; else absent, and then it is passed on as absent.
C25_PostTimeout ==
    (LowLevelCall /\ posts.last # None)
    => /\ Val(posts.last).timeout = IF call.timeout # None THEN call.timeout
                                    ELSE service.timeout
       /\ (call.timeout = None /\ service.timeout = None)
          => Val(posts.last).timeout = None

\* A call-site timeout of 0 on a client with a default timeout.
C25_Witness ==
    /\ call.op = "put_sms"
    /\ call.timeout = Some(0)
    /\ service.timeout = Some(MaxTimeout - 1)
    /\ posts.last # None
    /\ Val(posts.last).timeout = Some(0)

\* No timeout anywhere: the POST gets None.
C25_WitnessAbsent ==
    /\ call.op = "check_sms_state"
    /\ call.timeout = None
    /\ service.timeout = None
    /\ posts.last # None
    /\ Val(posts.last).timeout = None

\* C26: _request raises or suppresses an error exactly when the POST
\* faulted or the status line of the response is ERROR; for every other
\* status line, one that is not REQUEST OK included, put_sms and
\* check_sms_state return the parsed packet and log no error, and is_ok and
\* is_error are both false for a status line that is neither.
C26_ErrorExactlyOnFaultOrErrorLine ==
    (call.op \in {"put_sms", "check_sms_state"} /\ posts.last # None)
    => /\ (Faulted \/ ErrorAnswered)
          <=> (result.status = "raised" \/ result.value = None)
       /\ (Faulted \/ ErrorAnswered) <=> log # << >>
       /\ ~ (Faulted \/ ErrorAnswered)
          => /\ result.status = "returned"
             /\ result.value = LastPacket
             /\ Val(result.value).message \notin {MESSAGE_OK, MESSAGE_ERROR}
                => /\ ~ IsOk(Val(result.value))
                   /\ ~ IsError(Val(result.value))

\* A response whose status line is neither REQUEST OK nor ERROR comes back
\* as a packet.
C26_Witness ==
    /\ call.op = "check_sms_state"
    /\ posts.last # None
    /\ LastOutcome.kind = "response"
    /\ LastOutcome.text = TEXT_OTHER
    /\ result.status = "returned"
    /\ result.value = LastPacket
    /\ ~ IsOk(Val(result.value))
    /\ ~ IsError(Val(result.value))
    /\ log = << >>

\* C27: inside wait_until_arrived a state check either raises or returns
\* a packet, so the read of state_response.state never meets None: the
\* call never ends with the AttributeError of that read, and after a check
\* that did not raise the packet is set.
C27_PacketPresentWhenRead ==
    /\ (WaitCall /\ result.status = "raised")
       => Val(result.exc).class # "AttributeError"
    /\ (WaitCall /\ checks > 0 /\ check_error = None)
       => state_response # None
    /\ (WaitCall /\ checks > 0)
       => (check_error = None <=> ~ (Faulted \/ ErrorAnswered \/ NoHandle
                                        \/ NoCredentials))

\* The caller asked for fail_silently; the first check returned a packet
\* whose state was read, the second raised and ended the call.
C27_Witness ==
    /\ WaitOver
    /\ call.fail_silently
    /\ checks = 2
    /\ check_error # None
    /\ Faulted
    /\ state_response # None
    /\ result.status = "returned"
    /\ result.value = state_response

\* C28: SMSService.send never changes the message's state_response and
\* SMSService.check_state (with or without wait) never changes its
\* put_response, whether the call returns or raises; so after a later send
\* a state_response obtained before is still set and SMS.state reports it.
C28_SlotFrames ==
    [][ /\ call'.op = "send"
           => /\ sms'.state_response = sms.state_response
              /\ sms.state_response # None
                 => SMSState(sms') = ResponseState(Val(sms.state_response))
        /\ call'.op \in {"check_state", "check_state_wait"}
           => sms'.put_response = sms.put_response ]_vars

\* After send, check_state, send: the second send succeeded and the
\* state_response of the check is still there and is what state reports.
C28_Witness ==
    /\ call.op = "send"
    /\ pc = "idle"
    /\ result.status = "returned"
    /\ sms.put_response = Some(ParsedResponse[TEXT_PUT_OK])
    /\ sms.state_response = Some(ParsedResponse[TEXT_ARRIVED])
    /\ SMSState(sms) = Some(STATE_ARRIVED)

\* A check_state that raised cleared state_response and left put_response.
C28_WitnessCheckFailed ==
    /\ call.op = "check_state"
    /\ pc = "idle"
    /\ result.status = "raised"
    /\ sms.state_response = None
    /\ sms.put_response = Some(ParsedResponse[TEXT_PUT_OK])

\* wait_until_arrived was called without a timeout on a client without a
\* default timeout.
NoBudget == WaitCall /\ call.timeout = None /\ service.timeout = None

\* C29: when the budget of wait_until_arrived is absent, the loop never
\* sleeps: after a check that observed a state other than 'arrived' the
\* next check follows at once (no time passes but that of the checks), and
\* the call ends only after an 'arrived' observation or an error of a
\* state check.
C29_UnboundedLoopNeverSleeps ==
    [][ NoBudget'
        => /\ remaining_timeout' = None
           /\ sleeps' = 0
           /\ pc' # "sleep"
           /\ (pc = "loop" /\ ObservedNotArrived')
              => /\ pc' = "loop"
                 /\ elapsed' <= elapsed + MaxStepDur
           /\ pc' = "idle"
              => /\ checks' > 0
                 /\ \/ check_error' # None
                    \/ /\ posts'.last # None
                       /\ Get(ParsedResponse[Val(posts'.last).outcome.text],
                              KEY_STATE) = Some(STATE_ARRIVED) ]_vars

\* Three checks in a row observed 'processed' and the loop is about to
\* check again, without having slept.
C29_Witness ==
    /\ NoBudget
    /\ pc = "loop"
    /\ checks = 3
    /\ sleeps = 0
    /\ ObservedNotArrived
    /\ remaining_timeout = None
    /\ elapsed = 3

\* The unbounded loop ended on an 'arrived' observation.
C29_WitnessArrived ==
    /\ NoBudget
    /\ pc = "idle"
    /\ checks = 2
    /\ check_error = None
    /\ result.status = "returned"
    /\ state_response = Some(ParsedResponse[TEXT_ARRIVED])

C30_WitnessFalse ==
    /\ call.op = "send"
    /\ call.fail_silently
    /\ ErrorAnswered
    /\ sms.registered_delivery
    /\ sms.debug
    /\ result.status = "returned"
    /\ result.value = Bool(FALSE)
    /\ sms.put_response = None

====
